---- MODULE Spec2Model ----
(***************************************************************************)
(* Model of the flight-search core: the airport registry with its          *)
(* per-airport outgoing index (airport.rs), the flight registry            *)
(* (flight.rs) and the best-first itinerary search (search.rs).            *)
(*                                                                         *)
(* Instants are minutes since 2024-01-14 00:00:00 (day 0).  A timestamp    *)
(* text "YYYY-MM-DD HH:MM:SS" is the record [day, hm] with hm the clock    *)
(* time in minutes, hm = 1440 standing for the text "24:00:00".            *)
(*                                                                         *)
(* An Arc<RwLock<Airport>> handle is the pair <<id, n>>: the n-th record    *)
(* add_airport created for that id, arena[id][n].  An edge keeps the        *)
(* handles of the two records it was built with, also after add_airport    *)
(* has replaced the registry's entry for that id.                          *)
(* A std BinaryHeap is the sequence of its backing vector.                 *)
(* Costs are i32 values; the one addition the search makes on them keeps   *)
(* that width.                                                             *)
(***************************************************************************)
EXTENDS Integers, Sequences, FiniteSets, TLC

VARIABLES
    airports,   \* AirportsContainer.airports: airport id -> handle, None = absent
    arena,      \* the Airport records behind the handles: [id, outgoing]
    flights,    \* FlightsContainer.flights: flight id -> FlightEdge
    last,       \* the registry call made last and how it ended
    pc,         \* position of the search: idle, counting, running, at_target,
                \* compared, returned, panicked, delivered
    query,      \* the SearchQuery of the running search
    heap,       \* traverse: heap (BinaryHeap<PathState>)
    count,      \* traverse: count (Vec, indexed by flight id)
    results,    \* traverse: results (BinaryHeap<Reverse<PathState>>)
    found,      \* find: the Vec<PathState> handed back
    loader      \* the registry call a second thread is in the middle of

vars ==
    <<airports, arena, flights, last, pc, query, heap, count, results, found, loader>>

registry == <<airports, arena, flights>>
searchVars == <<pc, query, heap, count, results, found>>

----------------------------------------------------------------------------
(* Bounds of the model *)

MaxEdges == 3      \* edges held by the outgoing indexes, all airports together
MaxRecords == 4    \* Airport records ever created by add_airport

(* Program constants *)

ConnectionMinutes == 15
WindowMinutes == 1440
HorizonMinutes == 2880
DayMinutes == 1440
MaxI32 == 2147483647
MinI32 == -MaxI32 - 1

AirportIds == {1, 2, 3}

NoQuery == [from |-> 0, to |-> 0, date |-> 0, hops |-> 0, results |-> 0]
NoLoader ==
    [at |-> "idle", op |-> "none", h |-> <<>>, edge |-> <<>>, departure |-> 0]

NoCall == [op |-> "none", arg |-> 0, outcome |-> "ok"]

----------------------------------------------------------------------------
(* Timestamp texts: flight.rs *)

Text(d, m) == [day |-> d, hm |-> m]

fix_datetime_format(t) ==
    IF t.hm = DayMinutes THEN [day |-> t.day + 1, hm |-> 0] ELSE t

parse_from_str(t) == t.day * DayMinutes + t.hm

departure_date(dto) == parse_from_str(fix_datetime_format(dto.departure_date))

to_edge(dto, from, to) ==
    LET arrival == parse_from_str(fix_datetime_format(dto.arrival_date))
        departure == parse_from_str(fix_datetime_format(dto.departure_date))
    IN  [flight_id |-> dto.flight_id,
         to |-> to,
         from |-> from,
         cost |-> dto.cost,
         arrive_at |-> IF arrival < departure THEN arrival + DayMinutes ELSE arrival,
         depart_at |-> departure]

----------------------------------------------------------------------------
(* The three orderings the heaps are built on.  Le(ord, a, b) is a <= b.   *)
(* FlightEdgeWrapper and PathState compare other.cost with self.cost, so   *)
(* the cheaper element is the greater one; Reverse<PathState> turns that   *)
(* round again.                                                            *)

FlightEdgeWrapper_cmp(a, b) == b.cost <= a.cost

PathState_cmp(a, b) == b.cost <= a.cost

Reverse_cmp(a, b) == PathState_cmp(b, a)

Le(ord, a, b) ==
    CASE ord = "FlightEdgeWrapper" -> FlightEdgeWrapper_cmp(a, b)
      [] ord = "PathState" -> PathState_cmp(a, b)
      [] ord = "Reverse" -> Reverse_cmp(a, b)

(* std::collections::BinaryHeap over the vector data; positions are        *)
(* 0-based as in the library, data[p + 1] is the element at position p.    *)

At(data, p) == data[p + 1]

Put(data, p, e) == [data EXCEPT ![p + 1] = e]

RECURSIVE SiftUpHole(_, _, _, _, _)
SiftUpHole(ord, data, elt, start, pos) ==
    IF pos > start
    THEN LET parent == (pos - 1) \div 2
         IN  IF Le(ord, elt, At(data, parent))
             THEN Put(data, pos, elt)
             ELSE SiftUpHole(ord, Put(data, pos, At(data, parent)), elt, start, parent)
    ELSE Put(data, pos, elt)

sift_up(ord, data, start, pos) == SiftUpHole(ord, data, At(data, pos), start, pos)

push(ord, data, item) == sift_up(ord, Append(data, item), 0, Len(data))

SaturatingSub2(n) == IF n >= 2 THEN n - 2 ELSE 0

(* the hole walks down to a leaf, always towards the greater child *)
RECURSIVE SiftDownBottomHole(_, _, _, _, _)
SiftDownBottomHole(ord, data, elt, start, pos) ==
    LET end == Len(data)
        child == 2 * pos + 1
    IN  IF child <= SaturatingSub2(end)
        THEN LET c == IF Le(ord, At(data, child), At(data, child + 1))
                      THEN child + 1 ELSE child
             IN  SiftDownBottomHole(ord, Put(data, pos, At(data, c)), elt, start, c)
        ELSE IF child = end - 1
             THEN sift_up(ord, Put(Put(data, pos, At(data, child)), child, elt), start, child)
             ELSE sift_up(ord, Put(data, pos, elt), start, pos)

sift_down_to_bottom(ord, data, pos) ==
    SiftDownBottomHole(ord, data, At(data, pos), pos, pos)

(* pop: the pair <<item, remaining vector>>; data is not empty *)
pop(ord, data) ==
    LET item == data[Len(data)]
        rest == SubSeq(data, 1, Len(data) - 1)
    IN  IF rest = <<>>
        THEN <<item, rest>>
        ELSE <<rest[1], sift_down_to_bottom(ord, Put(rest, 0, item), 0)>>

(* sift_down_range(pos, end): stops as soon as the element is in place *)
RECURSIVE SiftDownRangeHole(_, _, _, _, _)
SiftDownRangeHole(ord, data, elt, pos, end) ==
    LET child == 2 * pos + 1
    IN  IF child <= SaturatingSub2(end)
        THEN LET c == IF Le(ord, At(data, child), At(data, child + 1))
                      THEN child + 1 ELSE child
             IN  IF Le(ord, At(data, c), elt)
                 THEN Put(data, pos, elt)
                 ELSE SiftDownRangeHole(ord, Put(data, pos, At(data, c)), elt, c, end)
        ELSE IF child = end - 1 /\ ~Le(ord, At(data, child), elt)
             THEN Put(Put(data, pos, At(data, child)), child, elt)
             ELSE Put(data, pos, elt)

sift_down_range(ord, data, pos, end) ==
    SiftDownRangeHole(ord, data, At(data, pos), pos, end)

RECURSIVE RebuildFrom(_, _, _)
RebuildFrom(ord, data, n) ==
    IF n > 0
    THEN RebuildFrom(ord, sift_down_range(ord, data, n - 1, Len(data)), n - 1)
    ELSE data

rebuild(ord, data) == RebuildFrom(ord, data, Len(data) \div 2)

RECURSIVE log2_fast(_)
log2_fast(x) == IF x <= 1 THEN 0 ELSE 1 + log2_fast(x \div 2)

RECURSIVE SiftUpTail(_, _, _)
SiftUpTail(ord, data, i) ==
    IF i < Len(data) THEN SiftUpTail(ord, sift_up(ord, data, 0, i), i + 1) ELSE data

rebuild_tail(ord, data, start) ==
    IF start = Len(data)
    THEN data
    ELSE LET tail_len == Len(data) - start
             better_to_rebuild ==
                 IF start < tail_len THEN TRUE
                 ELSE 2 * Len(data) < tail_len * log2_fast(start)
         IN  IF better_to_rebuild THEN rebuild(ord, data) ELSE SiftUpTail(ord, data, start)

(* retain on the heap: drop the elements of the flight id, then restore    *)
(* the heap from the first position an element was dropped at              *)
RECURSIVE FirstDropped(_, _, _)
FirstDropped(data, flight_id, i) ==
    IF i > Len(data) THEN Len(data)
    ELSE IF data[i].flight_id = flight_id THEN i - 1
    ELSE FirstDropped(data, flight_id, i + 1)

retain(ord, data, flight_id) ==
    LET kept == SelectSeq(data, LAMBDA x : x.flight_id # flight_id)
        rebuild_from == FirstDropped(data, flight_id, 1)
    IN  IF rebuild_from >= Len(kept) THEN kept ELSE rebuild_tail(ord, kept, rebuild_from)

(* into_sorted_vec: heap sort in place, ascending in the heap's ordering *)
RECURSIVE SortFrom(_, _, _)
SortFrom(ord, data, end) ==
    IF end > 1
    THEN LET e == end - 1
             swapped == Put(Put(data, 0, At(data, e)), e, At(data, 0))
         IN  SortFrom(ord, sift_down_range(ord, swapped, 0, e), e)
    ELSE data

into_sorted_vec(ord, data) == SortFrom(ord, data, Len(data))

reverse(v) == [i \in 1..Len(v) |-> v[Len(v) + 1 - i]]

----------------------------------------------------------------------------
(* Airport: airport.rs *)

None == <<>>
Some(x) == <<x>>

NewAirport(id) == [id |-> id, outgoing |-> <<>>]

(* Airport::add_flight: the bucket of the departure instant, created when  *)
(* absent, receives the edge                                               *)
Airport_add_flight(airport, flight, departure) ==
    IF departure \notin DOMAIN airport.outgoing
    THEN [airport EXCEPT !.outgoing =
            [d \in DOMAIN airport.outgoing \cup {departure} |->
                IF d = departure THEN push("FlightEdgeWrapper", <<>>, flight)
                ELSE airport.outgoing[d]]]
    ELSE [airport EXCEPT !.outgoing[departure] = push("FlightEdgeWrapper", @, flight)]

(* Airport::remove_flight: drops the id from the one bucket, and the       *)
(* bucket when it is left empty                                            *)
Airport_remove_flight(airport, flight_id, departure) ==
    IF departure \in DOMAIN airport.outgoing
    THEN LET bucket == retain("FlightEdgeWrapper", airport.outgoing[departure], flight_id)
         IN  IF Len(bucket) = 0
             THEN [airport EXCEPT !.outgoing =
                     [d \in DOMAIN airport.outgoing \ {departure} |-> airport.outgoing[d]]]
             ELSE [airport EXCEPT !.outgoing[departure] = bucket]
    ELSE airport

Min(S) == CHOOSE x \in S : \A y \in S : x <= y

(* the buckets of the keys, in ascending key order, each in the order of   *)
(* its backing vector (heap.iter())                                        *)
RECURSIVE Collect(_, _)
Collect(outgoing, keys) ==
    IF keys = {} THEN <<>>
    ELSE LET d == Min(keys) IN outgoing[d] \o Collect(outgoing, keys \ {d})

(* Airport::flights_between, for start <= end (the range aborts otherwise) *)
flights_between(airport, start, end) ==
    LET end_date == IF end = None THEN start + WindowMinutes ELSE end[1]
    IN  Collect(airport.outgoing,
                {d \in DOMAIN airport.outgoing : start <= d /\ d <= end_date})

----------------------------------------------------------------------------
(* The flights a caller may add: FlightDTO values *)

DTO(id, from, to, cost, dep, arr) ==
    [flight_id |-> id, from |-> from, to |-> to, cost |-> cost,
     arrival_date |-> arr, departure_date |-> dep]

(* the two flights of the documented scenario *)
Scenario ==
    { DTO(10, 1, 2, 100, Text(0, 480), Text(0, 600)),
      DTO(11, 2, 3, 50, Text(0, 630), Text(0, 720)) }

(* flights with the ids a loader hands out, 0, 1, 2: the scenario's two    *)
(* legs, a direct flight landing at 24:00:00, a flight landing after the   *)
(* horizon and an overnight loop at airport 1.  Three of them leave        *)
(* airport 1 at 08:00, three share id 0.                                   *)
Catalogue ==
    { DTO(0, 1, 2, 100, Text(0, 480), Text(0, 600)),
      DTO(1, 2, 3, 50, Text(0, 630), Text(0, 720)),
      DTO(2, 1, 3, 120, Text(0, 480), Text(0, 1440)),
      DTO(0, 1, 3, 70, Text(0, 480), Text(2, 540)),
      DTO(0, 1, 1, 10, Text(0, 540), Text(0, 510)) }

(* flights that connect at airport 2: the first leg, connections from 2    *)
(* to 3 leaving 30 and 10 minutes after it lands, a loop at airport 2      *)
(* leaving exactly 15 minutes after, a flight back from 3 to 2 and a late  *)
(* flight from 2 to 3 that closes the cycle 2 -> 3 -> 2 -> 3               *)
ConnectCatalogue ==
    { DTO(0, 1, 2, 100, Text(0, 480), Text(0, 600)),
      DTO(1, 2, 3, 50, Text(0, 630), Text(0, 720)),
      DTO(1, 2, 3, 40, Text(0, 610), Text(0, 660)),
      DTO(2, 2, 2, 5, Text(0, 615), Text(0, 615)),
      DTO(2, 3, 2, 20, Text(0, 750), Text(0, 780)),
      DTO(3, 2, 3, 30, Text(0, 810), Text(0, 870)) }

ConnectQueries ==
    [from : {1}, to : {2, 3}, date : {0}, hops : {1, 2}, results : {5}]

(* flights around the end of the first day: two first legs, one landing   *)
(* in the morning and one after midnight, a connection from 2 to 3 on the  *)
(* same day, one leaving 25 hours after midnight of the query date and     *)
(* landing an hour later, one landing after the horizon and a flight back  *)
(* to airport 1                                                            *)
WindowCatalogue ==
    { DTO(0, 1, 2, 100, Text(0, 480), Text(0, 600)),
      DTO(0, 1, 2, 90, Text(0, 1380), Text(0, 30)),
      DTO(1, 2, 3, 50, Text(0, 630), Text(0, 720)),
      DTO(1, 2, 3, 60, Text(1, 60), Text(1, 120)),
      DTO(2, 2, 3, 40, Text(1, 1380), Text(1, 60)),
      DTO(2, 2, 1, 30, Text(0, 700), Text(0, 800)) }

WindowQueries ==
    [from : {1}, to : {3}, date : {0}, hops : {1, 2}, results : {5}]

(* flights that go round: a first leg, a flight at airport 2 that lands at *)
(* the instant and the airport it leaves from, a connection on to 3 and a  *)
(* flight back from 3 to 2                                                 *)
LoopCatalogue ==
    { DTO(0, 1, 2, 100, Text(0, 480), Text(0, 600)),
      DTO(1, 2, 2, 5, Text(0, 615), Text(0, 615)),
      DTO(2, 2, 3, 50, Text(0, 630), Text(0, 720)),
      DTO(1, 3, 2, 20, Text(0, 750), Text(0, 780)) }

LoopQueries ==
    [from : {1}, to : {3}, date : {0}, hops : {0, 2}, results : {0, 1}]

(* flights for a loader at work during a search: the two legs of the      *)
(* scenario and a flight that leaves airport 3                            *)
LockCatalogue ==
    { DTO(0, 1, 2, 100, Text(0, 480), Text(0, 600)),
      DTO(1, 2, 3, 50, Text(0, 630), Text(0, 720)),
      DTO(2, 3, 2, 20, Text(0, 750), Text(0, 780)) }

LockQueries ==
    [from : {1}, to : {2, 3}, date : {0}, hops : {2}, results : {1}]

(* flights whose costs add up to more than an i32 holds, one of them also  *)
(* at a negative cost                                                      *)
CostCatalogue ==
    { DTO(0, 1, 2, MaxI32, Text(0, 480), Text(0, 600)),
      DTO(0, 1, 2, 100, Text(0, 480), Text(0, 600)),
      DTO(1, 2, 3, 1, Text(0, 630), Text(0, 720)),
      DTO(1, 2, 3, -20, Text(0, 630), Text(0, 720)),
      DTO(2, 1, 3, 5, Text(0, 480), Text(0, 540)) }

CostQueries ==
    [from : {1}, to : {3}, date : {0}, hops : {0, 2}, results : {1, 5}]

(* the ids of the flights of cat, and 999, an id no flight has *)
FlightIdsOf(cat) == {dto.flight_id : dto \in cat} \cup {999}

Queries ==
    [from : {1}, to : {1, 3}, date : {0}, hops : {0, 1, 2}, results : {0, 1, 5}]

ScenarioQueries ==
    [from : {1, 2}, to : {2, 3}, date : {0, 1}, hops : {0, 2}, results : {0, 5}]

----------------------------------------------------------------------------
(* Registry state *)

Registered(id) == airports[id] # None

Rec(h) == arena[h[1]][h[2]]

EdgesOf(airport) ==
    UNION {{airport.outgoing[d][i] : i \in 1..Len(airport.outgoing[d])} :
              d \in DOMAIN airport.outgoing}

IndexEntries(airport) == Len(Collect(airport.outgoing, DOMAIN airport.outgoing))

Handles == {<<id, n>> : <<id, n>> \in {hh \in AirportIds \X (1..MaxRecords + 1) : hh[2] <= Len(arena[hh[1]])}}

RECURSIVE SumOver(_)
SumOver(hs) ==
    IF hs = {} THEN 0
    ELSE LET h == CHOOSE x \in hs : TRUE
         IN  IndexEntries(Rec(h)) + SumOver(hs \ {h})

TotalEdges == SumOver(Handles)

TotalRecords == Cardinality(Handles)

Crashed == last.outcome = "panic"

Init ==
    /\ airports = [id \in AirportIds |-> None]
    /\ arena = [id \in AirportIds |-> <<>>]
    /\ flights = <<>>
    /\ last = NoCall
    /\ pc = "idle"
    /\ query = NoQuery
    /\ heap = <<>>
    /\ count = <<>>
    /\ results = <<>>
    /\ found = <<>>
    /\ loader = NoLoader

(* a lookup that hands out the record of some registered airport when     *)
(* the id asked for is absent                                              *)
get_airport_ref_fallback(airport_id, write) ==
    IF airports[airport_id] # None \/ \A id \in AirportIds : airports[id] = None
    THEN airports[airport_id]
    ELSE airports[CHOOSE id \in AirportIds : airports[id] # None]

(* AirportsContainer::get_airport_ref: Read(handle) / Write(handle) as     *)
(* Some(handle), AirportAccess::None as None                               *)
get_airport_ref(airport_id, write) == airports[airport_id]

(* FlightsContainer::get_flight *)
get_flight(flight_id) ==
    IF flight_id \in DOMAIN flights THEN Some(flights[flight_id]) ELSE None

(* FlightsContainer::add_flight: insert by id, the last insert wins *)
FlightsContainer_add_flight(fs, flight) ==
    [id \in DOMAIN fs \cup {flight.flight_id} |->
        IF id = flight.flight_id THEN flight ELSE fs[id]]

(* AirportsContainer::add_airport: a fresh record replaces the entry *)
add_airport(id) ==
    /\ pc = "idle" /\ ~Crashed
    /\ TotalRecords < MaxRecords
    /\ arena' = [arena EXCEPT ![id] = Append(@, NewAirport(id))]
    /\ airports' = [airports EXCEPT ![id] = Some(<<id, Len(arena[id]) + 1>>)]
    /\ last' = [op |-> "add_airport", arg |-> id, outcome |-> "ok"]
    /\ UNCHANGED <<flights, searchVars, loader>>

(* AirportsContainer::add_flight *)
add_flight(dto) ==
    /\ pc = "idle" /\ ~Crashed
    /\ TotalEdges < MaxEdges
    /\ LET airport_from == get_airport_ref(dto.from, TRUE)
           airport_to == get_airport_ref(dto.to, FALSE)
       IN  IF airport_to = None \/ airport_from = None
           THEN /\ UNCHANGED <<arena, flights>>
                /\ last' = [op |-> "add_flight", arg |-> dto, outcome |-> "ignored"]
           ELSE LET flight_edge == to_edge(dto, airport_from[1], airport_to[1])
                    h == airport_from[1]
                IN  /\ flights' = FlightsContainer_add_flight(flights, flight_edge)
                    /\ arena' = [arena EXCEPT ![h[1]][h[2]] =
                                     Airport_add_flight(@, flight_edge, departure_date(dto))]
                    /\ last' = [op |-> "add_flight", arg |-> dto, outcome |-> "ok"]
    /\ UNCHANGED <<airports, searchVars, loader>>

(* AirportsContainer::remove_flight: get_flight(..).unwrap() aborts the    *)
(* caller when the id is not in the FlightsContainer                       *)
remove_flight(flight_id) ==
    /\ pc = "idle" /\ ~Crashed
    /\ LET flight == get_flight(flight_id)
       IN  IF flight = None
           THEN /\ UNCHANGED arena
                /\ last' = [op |-> "remove_flight", arg |-> flight_id, outcome |-> "panic"]
           ELSE LET from == Rec(flight[1].from).id
                    airport == airports[from]
                IN  /\ arena' = IF airport # None
                                THEN [arena EXCEPT ![airport[1][1]][airport[1][2]] =
                                        Airport_remove_flight(@, flight_id, flight[1].depart_at)]
                                ELSE arena
                    /\ last' = [op |-> "remove_flight", arg |-> flight_id, outcome |-> "ok"]
    /\ UNCHANGED <<airports, flights, searchVars, loader>>

(* FlightsContainer::remove_flight: Ok(()) or Err("Flight not found.") *)
FlightsContainer_remove_flight(flight_id) ==
    /\ pc = "idle" /\ ~Crashed
    /\ IF flight_id \in DOMAIN flights
       THEN /\ flights' = [id \in DOMAIN flights \ {flight_id} |-> flights[id]]
            /\ last' = [op |-> "flights.remove_flight", arg |-> flight_id, outcome |-> "ok"]
       ELSE /\ UNCHANGED flights
            /\ last' = [op |-> "flights.remove_flight", arg |-> flight_id, outcome |-> "err"]
    /\ UNCHANGED <<airports, arena, searchVars, loader>>

----------------------------------------------------------------------------
(* Search: search.rs *)

PathState(cost, current, path) == [cost |-> cost, current |-> current, path |-> path]

Midnight(q) == q.date * DayMinutes

Source == airports[query.from][1]
Target == airports[query.to][1]

RECURSIVE PushAll(_, _, _)
PushAll(ord, data, items) ==
    IF items = <<>> THEN data
    ELSE PushAll(ord, push(ord, data, Head(items)), Tail(items))

(* a seeding that takes every edge the source lists up to the end of the   *)
(* window, whatever the day it leaves on                                   *)
Seeds_any_date(source, date) ==
    LET flights_ == flights_between(Rec(source), 0, Some(date + WindowMinutes))
    IN  [i \in 1..Len(flights_) |->
            PathState(flights_[i].cost, flights_[i], <<flights_[i]>>)]

(* traverse, seeding: one singleton PathState per edge leaving the source  *)
(* in [date, date + 24h]                                                   *)
Seeds(source, date) ==
    LET flights_ == flights_between(Rec(source), date, Some(date + WindowMinutes))
        kept == SelectSeq(flights_, LAMBDA edge : ~(edge.depart_at < date))
    IN  [i \in 1..Len(kept) |-> PathState(kept[i].cost, kept[i], <<kept[i]>>)]

(* find, after traverse: into_sorted_vec, unwrap the Reverse, reverse *)
Sorted(res) == reverse(into_sorted_vec("Reverse", res))

(* traverse: curr.to is the target airport *)
ReachesTarget(state) == Rec(state.current.to).id = Rec(Target).id

(* a traverse that never applies the simple-path guard *)
SimplePathGuard_never(state) == FALSE

(* traverse: the frontier's destination is the origin of an edge of the path *)
SimplePathGuard(state) ==
    \E i \in 1..Len(state.path) :
        Rec(state.path[i].from).id = Rec(state.current.to).id

(* a traverse that asks for no connection time *)
StartDate_at_arrival(curr) == curr.arrive_at

(* traverse: first instant a connecting edge may leave at *)
StartDate(curr) == curr.arrive_at + ConnectionMinutes

(* traverse: last instant a connecting edge may leave at *)
EndDate(date) == date + WindowMinutes

(* traverse: a candidate edge is dropped *)
Excluded(edge, date) ==
    \/ edge.arrive_at > date + HorizonMinutes
    \/ Rec(edge.to).id = Rec(Source).id

(* i32 addition: the sum leaves the range of the type *)
Overflows(a, b) ==
    \/ b > 0 /\ a > MaxI32 - b
    \/ b < 0 /\ a < MinI32 - b

(* i32 addition without the overflow check: the sum modulo 2^32 *)
wrapping_add(a, b) ==
    IF b > 0 /\ a > MaxI32 - b THEN (a - MaxI32) + (b - MaxI32) - 2
    ELSE IF b < 0 /\ a < MinI32 - b THEN (a + MaxI32) + (b + MaxI32) + 2
    ELSE a + b

(* traverse: the candidate edges that pass the horizon and source checks *)
Kept(state, date) ==
    LET cand == flights_between(Rec(state.current.to),
                                StartDate(state.current), Some(EndDate(date)))
    IN  SelectSeq(cand, LAMBDA edge : ~Excluded(edge, date))

(* traverse: state.cost + edge.cost overflows for one of the candidates *)
CostOverflows(state, date) ==
    \E i \in 1..Len(Kept(state, date)) :
        Overflows(state.cost, Kept(state, date)[i].cost)

(* traverse: the successors of state, in the order they are pushed *)
Successors(state, date) ==
    LET kept == Kept(state, date)
    IN  [i \in 1..Len(kept) |->
            PathState(wrapping_add(state.cost, kept[i].cost), kept[i],
                      Append(state.path, kept[i]))]

(* traverse: the result cap is hit *)
CapReached(res, total) == Len(res) = total

(* find up to the end of the seeding loop of traverse *)
SearchStart(q) ==
    /\ pc = "idle" /\ ~Crashed
    /\ query' = q
    /\ last' = [op |-> "find", arg |-> 0, outcome |-> "ok"]
    /\ IF airports[q.from] = None \/ airports[q.to] = None
       THEN /\ pc' = "returned"
            /\ UNCHANGED <<heap, count, results, found>>
       ELSE /\ pc' = "running"
            /\ count' = [i \in 1..Cardinality(DOMAIN flights) |-> 0]
            /\ heap' = PushAll("PathState", <<>>, Seeds(airports[q.from][1], Midnight(q)))
            /\ UNCHANGED <<results, found>>
    /\ UNCHANGED <<registry, loader>>

(* one turn of the while loop of traverse, from the pop on.  The sum      *)
(* state.cost + edge.cost is an i32 addition: when it overflows, a build   *)
(* with overflow checks aborts the search and a build without them goes    *)
(* on with the wrapped sum.                                                *)
Iterate ==
    LET popped == pop("PathState", heap)
        state == popped[1]
        curr == state.current
        cur_id == curr.flight_id
        date == Midnight(query)
    IN  IF cur_id >= Len(count)
        THEN /\ pc' = "panicked"
             /\ heap' = popped[2]
             /\ UNCHANGED <<count, results, found>>
        ELSE LET counted == [count EXCEPT ![cur_id + 1] = @ + 1]
                 emitted == IF ReachesTarget(state)
                            THEN push("Reverse", results, state) ELSE results
             IN  /\ count' = counted
                 /\ results' = emitted
                 /\ IF ReachesTarget(state) /\ CapReached(emitted, query.results)
                    THEN /\ pc' = "returned"
                         /\ found' = Sorted(emitted)
                         /\ heap' = popped[2]
                    ELSE LET skipped == \/ SimplePathGuard(state)
                                        \/ counted[cur_id + 1] > query.hops
                                        \/ StartDate(curr) > EndDate(date)
                         IN  \/ /\ pc' = "running"
                                 /\ UNCHANGED found
                                 /\ heap' =
                                      IF skipped THEN popped[2]
                                      ELSE PushAll("PathState", popped[2],
                                                   Successors(state, date))
                             \/ /\ ~skipped
                                 /\ CostOverflows(state, date)
                                 /\ pc' = "panicked"
                                 /\ heap' = popped[2]
                                 /\ UNCHANGED found

(* one turn of the while loop of traverse, no other thread in between *)
Step ==
    /\ pc = "running"
    /\ heap # <<>>
    /\ Iterate
    /\ UNCHANGED <<registry, last, query, loader>>

(* a traverse whose loop does not end when the heap is empty *)
Drain_spins ==
    /\ pc = "running"
    /\ heap = <<>>
    /\ UNCHANGED vars

(* the heap is empty: traverse returns results and find sorts them *)
Drain ==
    /\ pc = "running"
    /\ heap = <<>>
    /\ pc' = "returned"
    /\ found' = Sorted(results)
    /\ UNCHANGED <<registry, last, query, heap, count, results, loader>>

(* find_async: the joined task's Vec, or the default when the task aborted *)
find_async ==
    /\ pc \in {"returned", "panicked"}
    /\ pc' = "delivered"
    /\ found' = IF pc = "panicked" THEN <<>> ELSE found
    /\ UNCHANGED <<registry, last, query, heap, count, results, loader>>

----------------------------------------------------------------------------
(* Two threads on the same registries: the thread that runs find and a     *)
(* loader thread inside add_flight or remove_flight, one step per lock     *)
(* taken.  The state of each std::sync::RwLock follows from where the two  *)
(* threads are.  A read() is refused while a writer holds the lock or      *)
(* waits for it, a write() while a read guard is out.                      *)

(* the state the next turn of the loop pops *)
Popped == pop("PathState", heap)[1]

(* the thread of find holds a read guard of the record: curr.to.read(),    *)
(* alive until the comparison with target.read().id is done                *)
ReadHeld(h) == pc = "at_target" /\ Popped.current.to = h

(* the loader has called write() on the lock of the record *)
WriterAt(h) == loader.at = "airport" /\ loader.h = h

CanRead(h) == ~WriterAt(h)

CanWrite(h) == ~ReadHeld(h)

(* the lock of the FlightsContainer: read by traverse for flights.len(),   *)
(* written by add_flight for the insert                                    *)
FlightsReadHeld == pc = "counting"

FlightsWriterAt == loader.at = "flights"

CanReadFlights == ~FlightsWriterAt

CanWriteFlights == ~FlightsReadHeld

(* find up to flights_container.read() in traverse *)
find_begin(q) ==
    /\ pc = "idle" /\ ~Crashed
    /\ query' = q
    /\ last' = [op |-> "find", arg |-> 0, outcome |-> "ok"]
    /\ IF airports[q.from] = None \/ airports[q.to] = None
       THEN pc' = "returned"
       ELSE CanReadFlights /\ pc' = "counting"
    /\ UNCHANGED <<registry, heap, count, results, found, loader>>

(* traverse: the counter, sized under the lock of the FlightsContainer,    *)
(* and the seeding under source.read()                                     *)
traverse_seed ==
    /\ pc = "counting"
    /\ CanRead(Source)
    /\ pc' = "running"
    /\ count' = [i \in 1..Cardinality(DOMAIN flights) |-> 0]
    /\ heap' = PushAll("PathState", <<>>, Seeds(Source, Midnight(query)))
    /\ UNCHANGED <<registry, last, query, results, found, loader>>

(* a turn of the loop up to curr.to.read(), or its abort on the counter *)
lock_frontier ==
    /\ pc = "running"
    /\ heap # <<>>
    /\ IF Popped.current.flight_id >= Len(count)
       THEN Iterate
       ELSE /\ CanRead(Popped.current.to)
            /\ pc' = "at_target"
            /\ UNCHANGED <<heap, count, results, found>>
    /\ UNCHANGED <<registry, last, query, loader>>

(* target.read() with the guard of curr.to still out; the ids are          *)
(* compared and both guards dropped                                        *)
lock_target ==
    /\ pc = "at_target"
    /\ CanRead(Target)
    /\ pc' = "compared"
    /\ UNCHANGED <<registry, last, query, heap, count, results, found, loader>>

(* the rest of the turn, taken in one step once no writer is at a record   *)
expand ==
    /\ pc = "compared"
    /\ loader.at # "airport"
    /\ Iterate
    /\ UNCHANGED <<registry, last, query, loader>>

(* AirportsContainer::add_flight up to flights_container.write() *)
add_flight_begin(dto) ==
    /\ loader.at = "idle" /\ ~Crashed
    /\ TotalEdges < MaxEdges
    /\ LET airport_from == get_airport_ref(dto.from, TRUE)
           airport_to == get_airport_ref(dto.to, FALSE)
       IN  IF airport_to = None \/ airport_from = None
           THEN UNCHANGED loader
           ELSE loader' = [at |-> "flights", op |-> "add_flight",
                           h |-> airport_from[1],
                           edge |-> to_edge(dto, airport_from[1], airport_to[1]),
                           departure |-> departure_date(dto)]
    /\ UNCHANGED <<registry, last, searchVars>>

(* add_flight: the insert under flights_container.write() *)
add_flight_insert ==
    /\ loader.at = "flights"
    /\ CanWriteFlights
    /\ flights' = FlightsContainer_add_flight(flights, loader.edge)
    /\ loader' = [loader EXCEPT !.at = "airport"]
    /\ UNCHANGED <<airports, arena, last, searchVars>>

(* add_flight: the index insert under airport.write() *)
add_flight_link ==
    /\ loader.at = "airport" /\ loader.op = "add_flight"
    /\ CanWrite(loader.h)
    /\ arena' = [arena EXCEPT ![loader.h[1]][loader.h[2]] =
                    Airport_add_flight(@, loader.edge, loader.departure)]
    /\ loader' = NoLoader
    /\ UNCHANGED <<airports, flights, last, searchVars>>

(* AirportsContainer::remove_flight up to airport.write(); the unwrap of   *)
(* an unknown id aborts the loader thread                                  *)
remove_flight_begin(flight_id) ==
    /\ loader.at = "idle" /\ ~Crashed
    /\ CanReadFlights
    /\ LET flight == get_flight(flight_id)
       IN  IF flight = None
           THEN loader' = [NoLoader EXCEPT !.at = "panicked"]
           ELSE LET airport == airports[Rec(flight[1].from).id]
                IN  loader' = IF airport # None
                              THEN [at |-> "airport", op |-> "remove_flight",
                                    h |-> airport[1], edge |-> flight[1],
                                    departure |-> flight[1].depart_at]
                              ELSE loader
    /\ UNCHANGED <<registry, last, searchVars>>

(* remove_flight: the index removal under airport.write() *)
remove_flight_unlink ==
    /\ loader.at = "airport" /\ loader.op = "remove_flight"
    /\ CanWrite(loader.h)
    /\ arena' = [arena EXCEPT ![loader.h[1]][loader.h[2]] =
                    Airport_remove_flight(@, loader.edge.flight_id, loader.departure)]
    /\ loader' = NoLoader
    /\ UNCHANGED <<airports, flights, last, searchVars>>

----------------------------------------------------------------------------
(* Specifications *)

Next ==
    \/ \E id \in AirportIds : add_airport(id)
    \/ \E dto \in Catalogue : add_flight(dto)
    \/ \E id \in FlightIdsOf(Catalogue) : remove_flight(id)
    \/ \E q \in Queries : SearchStart(q)
    \/ Step
    \/ Drain

Spec == Init /\ [][Next]_vars

(* the registries alone, every mutation of both containers *)
NextIndex ==
    \/ \E id \in AirportIds : add_airport(id)
    \/ \E dto \in Catalogue : add_flight(dto)
    \/ \E id \in FlightIdsOf(Catalogue) : remove_flight(id)
    \/ \E id \in FlightIdsOf(Catalogue) : FlightsContainer_remove_flight(id)

SpecIndex == Init /\ [][NextIndex]_vars

(* connecting itineraries: searches over the flights meeting at airport 2 *)
NextConnect ==
    \/ \E id \in AirportIds : add_airport(id)
    \/ \E dto \in ConnectCatalogue : add_flight(dto)
    \/ \E q \in ConnectQueries : SearchStart(q)
    \/ Step
    \/ Drain

SpecConnect == Init /\ [][NextConnect]_vars

(* the registries after add_airport(1), add_airport(2), add_airport(3) *)
InitRegistered ==
    /\ airports = [id \in AirportIds |-> Some(<<id, 1>>)]
    /\ arena = [id \in AirportIds |-> <<NewAirport(id)>>]
    /\ flights = <<>>
    /\ last = [op |-> "add_airport", arg |-> 3, outcome |-> "ok"]
    /\ pc = "idle"
    /\ query = NoQuery
    /\ heap = <<>>
    /\ count = <<>>
    /\ results = <<>>
    /\ found = <<>>
    /\ loader = NoLoader

(* searches over the flights that go round, between the three airports     *)
(* once registered; the thread that runs find always takes the next turn   *)
(* of the loop of traverse, or its exit, when there is one                 *)
NextLoop ==
    \/ \E dto \in LoopCatalogue : add_flight(dto)
    \/ \E q \in LoopQueries : SearchStart(q)
    \/ Step
    \/ Drain

SpecLoop == InitRegistered /\ [][NextLoop]_vars /\ WF_vars(Step) /\ WF_vars(Drain)

(* connections around midnight: searches over the flights of the window    *)
(* catalogue                                                               *)
NextWindow ==
    \/ \E id \in AirportIds : add_airport(id)
    \/ \E dto \in WindowCatalogue : add_flight(dto)
    \/ \E q \in WindowQueries : SearchStart(q)
    \/ Step
    \/ Drain

SpecWindow == Init /\ [][NextWindow]_vars

(* a search and a loader side by side, between the three airports once     *)
(* registered                                                              *)
NextLocks ==
    \/ \E dto \in LockCatalogue : add_flight_begin(dto)
    \/ add_flight_insert
    \/ add_flight_link
    \/ \E id \in FlightIdsOf(LockCatalogue) : remove_flight_begin(id)
    \/ remove_flight_unlink
    \/ \E q \in LockQueries : find_begin(q)
    \/ traverse_seed
    \/ lock_frontier
    \/ lock_target
    \/ expand
    \/ Drain

SpecLocks == InitRegistered /\ [][NextLocks]_vars

(* flights at costs up to the largest i32, and the search *)
NextCost ==
    \/ \E dto \in CostCatalogue : add_flight(dto)
    \/ \E q \in CostQueries : SearchStart(q)
    \/ Step
    \/ Drain

SpecCost == InitRegistered /\ [][NextCost]_vars

(* the documented scenario: its flights, searched from and to any airport *)
NextScenario ==
    \/ \E id \in AirportIds : add_airport(id)
    \/ \E dto \in Scenario : add_flight(dto)
    \/ \E q \in ScenarioQueries : SearchStart(q)
    \/ Step
    \/ Drain
    \/ find_async

SpecScenario == Init /\ [][NextScenario]_vars

----------------------------------------------------------------------------
(* Properties *)

FlightIdsIn(path) == [i \in 1..Len(path) |-> path[i].flight_id]

(* instants a flights_between window may start or end at *)
WindowBounds == {0, 480, 540, 630, 1440, 2880}

Windows == {w \in WindowBounds \X WindowBounds : w[1] <= w[2]}

(* the registries of the documented scenario: airports 1, 2, 3 and the     *)
(* flights 10 and 11, each listed once, at its origin airport              *)
ScenarioRegistry ==
    /\ \A id \in AirportIds : Registered(id)
    /\ DOMAIN flights = {10, 11}
    /\ TotalEdges = 2
    /\ \A id \in {10, 11} :
          /\ Some(flights[id].from) = airports[Rec(flights[id].from).id]
          /\ Some(flights[id].to) = airports[Rec(flights[id].to).id]
          /\ flights[id] \in EdgesOf(Rec(flights[id].from))

ScenarioQuery == [from |-> 1, to |-> 3, date |-> 0, hops |-> 2, results |-> 5]

(* C1: in the documented scenario, search(1, 3, 2024-01-14, 2, 5) runs to  *)
(* completion and hands back exactly one itinerary, [10, 11], of cost 150  *)
C1_ScenarioItinerary ==
    (ScenarioRegistry /\ query = ScenarioQuery /\ pc \in {"returned", "panicked", "delivered"})
        => /\ pc # "panicked"
           /\ Len(found) = 1
           /\ FlightIdsIn(found[1].path) = <<10, 11>>
           /\ found[1].cost = 150

(* C2: the returned list is in non-decreasing cost order, cheapest first *)
C2_AscendingCost ==
    pc = "returned" =>
        \A i \in 1..Len(found) - 1 : found[i].cost <= found[i + 1].cost

(* C3: the returned list holds at most result_cap itineraries, for every   *)
(* result_cap >= 0                                                         *)
C3_ResultBound ==
    pc = "returned" => Len(found) <= query.results

(* C4: no edge of a returned itinerary, the first leg included, lands      *)
(* after midnight of the query date plus 48 hours                          *)
C4_Horizon ==
    pc = "returned" =>
        \A i \in 1..Len(found) : \A j \in 1..Len(found[i].path) :
            found[i].path[j].arrive_at <= Midnight(query) + HorizonMinutes

(* C5: no edge of a returned itinerary, the first leg included, lands at   *)
(* the source airport of the query                                         *)
C5_NoReturnToSource ==
    pc = "returned" =>
        \A i \in 1..Len(found) : \A j \in 1..Len(found[i].path) :
            Rec(found[i].path[j].to).id # query.from

(* C6: in a returned itinerary every edge leaves at least 15 minutes       *)
(* after the edge before it has landed                                     *)
C6_ConnectionTime ==
    pc = "returned" =>
        \A i \in 1..Len(found) : \A j \in 1..Len(found[i].path) - 1 :
            found[i].path[j + 1].depart_at >=
                found[i].path[j].arrive_at + ConnectionMinutes

(* a connecting itinerary is returned although the airport it connects at  *)
(* lists a flight leaving less than 15 minutes after the first leg lands   *)
C6_Witness ==
    /\ pc = "returned"
    /\ \E i \in 1..Len(found) :
          /\ Len(found[i].path) >= 2
          /\ \E e \in EdgesOf(Rec(found[i].path[1].to)) :
                /\ e.depart_at >= found[i].path[1].arrive_at
                /\ e.depart_at < found[i].path[1].arrive_at + ConnectionMinutes
                /\ Rec(e.to).id = query.to

(* C7: the departure airports of the edges of a returned itinerary are     *)
(* pairwise distinct                                                       *)
C7_DistinctDepartures ==
    pc = "returned" =>
        \A i \in 1..Len(found) : \A j, k \in 1..Len(found[i].path) :
            j # k => Rec(found[i].path[j].from).id # Rec(found[i].path[k].from).id

(* an itinerary is returned that connects at an airport listing a flight   *)
(* back to itself, which the itinerary could have taken in between         *)
C7_Witness ==
    /\ pc = "returned"
    /\ \E i \in 1..Len(found) :
          /\ Len(found[i].path) = 2
          /\ \E e \in EdgesOf(Rec(found[i].path[1].to)) :
                /\ Rec(e.to).id = Rec(e.from).id
                /\ e.depart_at >= found[i].path[1].arrive_at + ConnectionMinutes
                /\ found[i].path[2].depart_at >= e.arrive_at + ConnectionMinutes

(* C8: the edges flights_between returns for one departure instant are in  *)
(* non-decreasing cost order, whatever the size of the bucket              *)
C8_BucketOrder ==
    \A h \in Handles : \A w \in Windows :
        LET listed == flights_between(Rec(h), w[1], Some(w[2]))
        IN  \A i, j \in 1..Len(listed) :
                (i < j /\ listed[i].depart_at = listed[j].depart_at)
                    => listed[i].cost <= listed[j].cost

JustAdded == last.op = "add_flight" /\ last.outcome = "ok"

ListedIds(h, w) ==
    LET listed == flights_between(Rec(h), w[1], Some(w[2]))
    IN  {listed[i].flight_id : i \in 1..Len(listed)}

(* after add_flight(f) with both airports registered, the window           *)
(* [f.depart_at, f.depart_at] of f's origin airport lists f                *)
AddedIsListed ==
    JustAdded =>
        LET f == flights[last.arg.flight_id]
            listed == flights_between(Rec(airports[last.arg.from][1]),
                                      f.depart_at, Some(f.depart_at))
        IN  /\ f = to_edge(last.arg, airports[last.arg.from][1], airports[last.arg.to][1])
            /\ \E i \in 1..Len(listed) : listed[i] = f

NoEdgeOfId(flight_id, from) ==
    \A w \in Windows : flight_id \notin ListedIds(airports[from][1], w)

AllDTOs ==
    Catalogue \cup ConnectCatalogue \cup WindowCatalogue \cup LoopCatalogue
        \cup LockCatalogue \cup Scenario

(* C9: add_flight(f) with both airports registered makes f listed at its   *)
(* departure instant, and a remove_flight(f.id) that follows leaves no     *)
(* edge of id f.id in any window of f's origin airport                     *)
C9_IndexCoherence ==
    [][ /\ AddedIsListed'
        /\ \A f \in AllDTOs :
              (JustAdded /\ last.arg = f
                 /\ last'.op = "remove_flight" /\ last'.arg = f.flight_id)
                  => NoEdgeOfId(f.flight_id, f.from)'
      ]_vars

(* C10: remove_flight of an id the FlightsContainer does not hold returns  *)
(* normally and changes neither the FlightsContainer nor any index         *)
C10_UnknownIdNoOp ==
    [][ (last'.op = "remove_flight" /\ last'.arg \notin DOMAIN flights)
            => (last'.outcome = "ok" /\ UNCHANGED registry)
      ]_vars

(* C11: whatever flight ids the registry holds, a search never aborts: the  *)
(* frontier flight id of every state waiting in the heap is a valid index  *)
(* of the counter allocated at the start of the traversal                  *)
C11_CounterIndexValid ==
    /\ pc # "panicked"
    /\ pc = "running" =>
          \A i \in 1..Len(heap) : heap[i].current.flight_id < Len(count)

(* C12: every edge in the outgoing index of a registered airport departs   *)
(* from that airport and is the edge the FlightsContainer holds under the  *)
(* same flight id                                                          *)
C12_IndexedEdgesRegistered ==
    \A id \in AirportIds : Registered(id) =>
        \A e \in EdgesOf(Rec(airports[id][1])) :
            /\ e.from = airports[id][1]
            /\ e.flight_id \in DOMAIN flights
            /\ flights[e.flight_id] = e

(* the number of entries of the flight id in the index of the record *)
EntriesOfId(airport, flight_id) ==
    Len(SelectSeq(Collect(airport.outgoing, DOMAIN airport.outgoing),
                  LAMBDA e : e.flight_id = flight_id))

(* C13: every flight id of the FlightsContainer is listed exactly once in  *)
(* the outgoing index of its origin airport and in no other airport's      *)
C13_RegisteredIdsIndexed ==
    \A flight_id \in DOMAIN flights :
        LET origin == Rec(flights[flight_id].from).id
        IN  \A id \in AirportIds : Registered(id) =>
                EntriesOfId(Rec(airports[id][1]), flight_id)
                    = IF id = origin THEN 1 ELSE 0

(* C16: add_flight with an unregistered origin or destination airport      *)
(* returns normally and changes neither the FlightsContainer nor any       *)
(* airport's index                                                         *)
C16_UnregisteredNoOp ==
    [][ (/\ last'.op = "add_flight"
         /\ \/ airports[last'.arg.from] = None
            \/ airports[last'.arg.to] = None)
            => (last'.outcome = "ignored" /\ UNCHANGED registry)
      ]_vars

(* add_flight has just been called with a registered origin that already   *)
(* lists a flight and a destination that is not registered                 *)
C16_Witness ==
    /\ last.op = "add_flight"
    /\ last.outcome = "ignored"
    /\ Registered(last.arg.from)
    /\ ~Registered(last.arg.to)
    /\ EdgesOf(Rec(airports[last.arg.from][1])) # {}

(* the registered source airport lists no edge leaving within              *)
(* [date 00:00, date 00:00 + 24h]                                          *)
NoDepartureInWindow(q) ==
    /\ Registered(q.from)
    /\ \A e \in EdgesOf(Rec(airports[q.from][1])) :
          e.depart_at < Midnight(q) \/ e.depart_at > Midnight(q) + WindowMinutes

(* C17: a search whose source or target airport is not registered, or      *)
(* whose source lists no departure within 24 hours of the query date,      *)
(* does not abort, pushes nothing and hands back the empty list            *)
C17_EmptyResult ==
    (/\ pc # "idle"
     /\ \/ ~Registered(query.from)
        \/ ~Registered(query.to)
        \/ NoDepartureInWindow(query))
        => /\ pc \in {"running", "returned", "delivered"}
           /\ heap = <<>>
           /\ results = <<>>
           /\ found = <<>>

(* the documented scenario, searched for 2024-01-15, has returned *)
C17_Witness ==
    /\ ScenarioRegistry
    /\ query = [ScenarioQuery EXCEPT !.date = 1]
    /\ pc = "returned"
    /\ found = <<>>

(* the returned itineraries whose last edge has the flight id *)
EndingWith(flight_id) ==
    {i \in 1..Len(found) : found[i].current.flight_id = flight_id}

(* C18: a state whose frontier flight has been popped more than hop_budget *)
(* times is dropped before the target check, so at most hop_budget         *)
(* returned itineraries end with the same flight, none when hop_budget = 0 *)
C18_BudgetBeforeEmit ==
    pc = "returned" =>
        \A flight_id \in DOMAIN flights :
            Cardinality(EndingWith(flight_id)) <= query.hops

(* the turn of the loop that is taken pops a state and drops it neither at *)
(* the result cap, nor by the simple-path guard, nor by the budget         *)
Expands ==
    /\ pc = "running" /\ pc' = "running"
    /\ heap # <<>>
    /\ count' # count
    /\ ~SimplePathGuard(Popped)
    /\ count'[Popped.current.flight_id + 1] <= query.hops

(* an edge the expansion of the state has to follow: it leaves the         *)
(* frontier's destination between 15 minutes after the landing and the     *)
(* horizon, lands by the horizon and not at the source airport             *)
Candidate(state, e) ==
    /\ e \in EdgesOf(Rec(state.current.to))
    /\ e.depart_at >= state.current.arrive_at + ConnectionMinutes
    /\ e.depart_at <= Midnight(query) + HorizonMinutes
    /\ e.arrive_at <= Midnight(query) + HorizonMinutes
    /\ Rec(e.to).id # query.from

(* C19: when a popped state is expanded, the heap receives a successor     *)
(* for every edge leaving the frontier's destination from 15 minutes       *)
(* after the landing up to date 00:00 + 48h, landing by then and not at    *)
(* the source; edges leaving after date 00:00 + 24h included               *)
C19_CandidateWindow ==
    [][ Expands =>
            \A e \in UNION {EdgesOf(Rec(h)) : h \in Handles} :
                Candidate(Popped, e) =>
                    \E i \in 1..Len(heap') : heap'[i].path = Append(Popped.path, e)
      ]_vars

C14_NestedReadCompletes ==
    ~(/\ pc = "at_target"
      /\ ReadHeld(Target)
      /\ ~CanRead(Target)
      /\ ~CanWrite(Target))

(* C15: the id -> flight map is not under one lock for all: an add_flight  *)
(* that has come to its insert never has to wait for a search start that   *)
(* is reading the map                                                      *)
C15_NoGlobalLock ==
    FlightsWriterAt => CanWriteFlights

----------------------------------------------------------------------------
(* every edge an outgoing index holds has a cost of zero or more *)
NonNegativeCosts ==
    \A h \in Handles : \A e \in EdgesOf(Rec(h)) : e.cost >= 0

(* C21: each turn of the loop pops a state of least cost among those in    *)
(* the queue; when no edge has a negative cost, the state popped next      *)
(* costs no less than the one popped now, and an itinerary is emitted      *)
(* only at a cost no less than that of every itinerary emitted before      *)
C21_PopsCheapest ==
    [][(pc = "running" /\ heap # <<>>) =>
          /\ \A i \in 1..Len(heap) : Popped.cost <= heap[i].cost
          /\ (NonNegativeCosts /\ pc' = "running" /\ heap' # <<>>)
                => Popped.cost <= Popped'.cost
          /\ (NonNegativeCosts /\ Len(results') > Len(results))
                => \A i \in 1..Len(results) : results[i].cost <= Popped.cost]_vars

----------------------------------------------------------------------------
(* the sum of the costs of the edges of path, as the pair <<q, r>> that    *)
(* stands for q * 65536 + r with 0 <= r < 65536                            *)
RECURSIVE HighSum(_, _)
HighSum(path, n) ==
    IF n = 0 THEN 0 ELSE HighSum(path, n - 1) + (path[n].cost \div 65536)

RECURSIVE LowSum(_, _)
LowSum(path, n) ==
    IF n = 0 THEN 0 ELSE LowSum(path, n - 1) + (path[n].cost % 65536)

CostSum(path) ==
    LET q == HighSum(path, Len(path))
        r == LowSum(path, Len(path))
    IN  <<q + (r \div 65536), r % 65536>>

(* the states in the queue and in the result set *)
StatesHeld ==
    {heap[i] : i \in 1..Len(heap)} \cup {results[i] : i \in 1..Len(results)}

WellFormed(state) ==
    /\ Len(state.path) >= 1
    /\ Rec(state.path[1].from).id = query.from
    /\ Midnight(query) <= state.path[1].depart_at
    /\ state.path[1].depart_at <= Midnight(query) + WindowMinutes
    /\ \A i \in 2..Len(state.path) :
          Rec(state.path[i].from).id = Rec(state.path[i - 1].to).id
    /\ state.current = state.path[Len(state.path)]
    /\ <<state.cost \div 65536, state.cost % 65536>> = CostSum(state.path)

(* C22: every PathState in the queue or in the result set has a path that  *)
(* is not empty, starts at the source airport inside the first 24 hours,   *)
(* is connected edge to edge and ends with its frontier edge, and a cost   *)
(* that is the sum of the costs of its edges; a turn of the loop that      *)
(* pushes successors leaves the state it extends, where it is kept, and    *)
(* every other state as they were                                          *)
C22_WellFormedStates ==
    [][/\ \A state \in StatesHeld' : WellFormed(state)'
       /\ (pc = "running" /\ heap # <<>>) =>
             /\ StatesHeld \ {Popped} \subseteq StatesHeld'
             /\ Len(results') > Len(results) => Popped \in StatesHeld']_vars

----------------------------------------------------------------------------
(* C23: a returned itinerary ends with an edge that lands at the target    *)
(* airport, and none of its earlier edges lands at the target or leaves    *)
(* from it                                                                 *)
C23_TargetOnlyAtEnd ==
    pc = "returned" =>
        \A i \in 1..Len(found) :
            LET path == found[i].path
            IN  /\ Rec(path[Len(path)].to).id = query.to
                /\ \A j \in 1..Len(path) - 1 :
                      /\ Rec(path[j].to).id # query.to
                      /\ Rec(path[j].from).id # query.to

====
